---- MODULE Spec2Model ----
(***************************************************************************)
(* Model of app.py: the booking marketplace (partner directory in sqlite,  *)
(* availability computed from the partner's Google calendar, booking       *)
(* written to the partner's calendar).                                      *)
(*                                                                          *)
(* Time.  An absolute instant is a whole number of hours on the UTC time   *)
(* line.  A civil date d is a day number; wall clock (d, h) with UTC       *)
(* offset off (negative west of Greenwich, as Python's utcoffset) is the   *)
(* instant d*24 + h - off.  Date 2 is a spring-forward day: wall clock     *)
(* hours before 03:00 carry the standard offset, later hours the daylight  *)
(* one.                                                                     *)
(***************************************************************************)
EXTENDS Integers, Sequences, FiniteSets, TLC

VARIABLES partners, service_areas, calendar, calls, inserts, booked, resp

vars == <<partners, service_areas, calendar, calls, inserts, booked, resp>>

(* ------------------------------ bounds --------------------------------- *)

\* events a calendar holds at the start of an availability run
MaxEvents == 2
\* events all calendars hold together in a booking run
MaxCalEvents == 2
\* rows of the partners table (3 sample rows + rows added by /join)
MaxPartners == 4

Dates == {1, 2}
Emails == {"your-email@gmail.com", "other@gmail.com"}
NoValue == "None"

(* --------------------------- time and zones ---------------------------- *)

\* pytz zone data: the UTC offset of wall clock (date, hour) in zone tz
StdOffset(tz) ==
    CASE tz = "America/New_York" -> 0 - 5
      [] tz = "America/Chicago" -> 0 - 6
      [] tz = "America/Los_Angeles" -> 0 - 8

utcoffset(tz, date, hour) ==
    IF date = 2 /\ hour >= 3 THEN StdOffset(tz) + 1 ELSE StdOffset(tz)

\* A datetime object: wall clock in hours (date * 24 + hour), whether it
\* carries a tzinfo, and that tzinfo's UTC offset (0 when naive).
\* local_tz.localize(datetime.combine(date, time(hour, 0))): an aware datetime
localize(tz, date, hour) ==
    [wall |-> date * 24 + hour, aware |-> TRUE, off |-> utcoffset(tz, date, hour)]

\* local_tz.localize(naive): the zone's offset at the naive wall clock
localize_naive(tz, dt) ==
    [wall |-> dt.wall, aware |-> TRUE,
     off |-> utcoffset(tz, dt.wall \div 24, dt.wall % 24)]

\* pytz.UTC.localize(naive)
localize_utc(dt) == [wall |-> dt.wall, aware |-> TRUE, off |-> 0]

\* the absolute instant of an aware datetime (what aware comparisons and
\* astimezone(pytz.UTC) work on)
instant(dt) == dt.wall - dt.off

\* dt.astimezone(pytz.UTC)
astimezone_utc(dt) == [wall |-> instant(dt), aware |-> TRUE, off |-> 0]

\* dt + timedelta(hours = n): wall clock arithmetic, tzinfo kept
plus_hours(dt, n) == [dt EXCEPT !.wall = dt.wall + n]

\* The text of a timestamp: wall clock, and a suffix "offset" (+hh:mm, the
\* offset in off), "Z", "naive" (no suffix) or "garbage" (not ISO 8601).
\* dt.isoformat()
isoformat(dt) ==
    [wall |-> dt.wall, suffix |-> IF dt.aware THEN "offset" ELSE "naive",
     off |-> dt.off]

\* text.replace('Z', '+00:00')
replace_Z(text) ==
    IF text.suffix = "Z" THEN [wall |-> text.wall, suffix |-> "offset", off |-> 0]
    ELSE text

\* datetime.datetime.fromisoformat(text): ok = FALSE stands for ValueError
fromisoformat(text) ==
    CASE text.suffix = "offset" ->
           [ok |-> TRUE, dt |-> [wall |-> text.wall, aware |-> TRUE, off |-> text.off]]
      [] text.suffix = "naive" ->
           [ok |-> TRUE, dt |-> [wall |-> text.wall, aware |-> FALSE, off |-> 0]]
      [] OTHER ->
           [ok |-> FALSE, dt |-> [wall |-> 0, aware |-> FALSE, off |-> 0]]

\* dt.strftime('%I:%M %p')
strftime_I_M_p(dt) ==
    [hour12 |-> IF (dt.wall % 24) % 12 = 0 THEN 12 ELSE (dt.wall % 24) % 12,
     ampm |-> IF dt.wall % 24 < 12 THEN "AM" ELSE "PM"]

(* ------------------------- the calendar source ------------------------- *)

\* An event a calendar holds: its busy interval [start, end) in absolute
\* instants, and how the provider writes it out: form "Z" (UTC with Z
\* suffix), "offset" (wall clock in offset off with a +hh:mm suffix),
\* "naive" (UTC wall clock, no suffix), "date" (an all-day event: start and
\* end carry only a date) or "garbage" (a timestamp fromisoformat rejects).
Event(start, end, form, off) ==
    [start |-> start, end |-> end, form |-> form, off |-> off]

\* the text of one timestamp as the provider writes it
DateTimeText(at, form, off) ==
    IF form = "offset" THEN [wall |-> at + off, suffix |-> "offset", off |-> off]
    ELSE [wall |-> at, suffix |-> form, off |-> 0]

\* one item of events_result['items']
EventItem(ev) ==
    IF ev.form = "date"
    THEN [start |-> [date |-> (ev.start + ev.off) \div 24],
          end |-> [date |-> (ev.end + ev.off) \div 24]]
    ELSE [start |-> [dateTime |-> DateTimeText(ev.start, ev.form, ev.off)],
          end |-> [dateTime |-> DateTimeText(ev.end, ev.form, ev.off)]]

\* service.events().list(calendarId, timeMin, timeMax, singleEvents): the
\* events of the calendar that end after timeMin and start before timeMax
events_list(cal, timeMin, timeMax) ==
    {ev \in cal : ev.end > timeMin /\ ev.start < timeMax}

(* --------------------------- data models ------------------------------- *)

\* Partner(id, name, email, description, rating, calendar_type, token_path):
\* the fields the handlers read
Partner(id, row) ==
    [id |-> id, email |-> row.email, calendar_type |-> row.calendar_type]

\* TimeSlot(start = slot_start_local.isoformat(),
\*          display = slot_start_local.strftime('%I:%M %p'), partner_id)
TimeSlot(slot_start_local, partner_id) ==
    [start |-> isoformat(slot_start_local),
     display |-> strftime_I_M_p(slot_start_local),
     partner_id |-> partner_id]

(* ---------------------------- availability ----------------------------- *)

\* range(9, 17)
DayStartHour == 9
DayEndHour == 17
SlotHoursThrough17 == [i \in 1..(DayEndHour - DayStartHour + 1) |-> DayStartHour + i - 1]
SlotHoursDescending == [i \in 1..(DayEndHour - DayStartHour) |-> DayEndHour - i]
SlotHours == [i \in 1..(DayEndHour - DayStartHour) |-> DayStartHour + i - 1]

OverlapsClosed(slot_start, slot_end, event_start, event_end) ==
    instant(slot_start) <= instant(event_end)
    /\ instant(slot_end) >= instant(event_start)

\* slot_start_utc < event_end and slot_end_utc > event_start
Overlaps(slot_start, slot_end, event_start, event_end) ==
    instant(slot_start) < instant(event_end)
    /\ instant(slot_end) > instant(event_start)

\* the tzinfo fix-up of a parsed event time
ensure_aware(dt) == IF dt.aware THEN dt ELSE localize_utc(dt)

\* One pass of the loop over events: TRUE when the event sets is_booked.
\* An event without start.dateTime is skipped; a KeyError or ValueError in
\* the try block is caught and the event is skipped.
event_books(item, slot_start_utc, slot_end_utc) ==
    IF "dateTime" \notin DOMAIN item.start THEN FALSE
    ELSE IF "dateTime" \notin DOMAIN item.end THEN FALSE
    ELSE LET event_start == fromisoformat(replace_Z(item.start.dateTime))
             event_end == fromisoformat(replace_Z(item.end.dateTime))
         IN  IF ~event_start.ok \/ ~event_end.ok THEN FALSE
             ELSE Overlaps(slot_start_utc, slot_end_utc,
                           ensure_aware(event_start.dt), ensure_aware(event_end.dt))

\* is_booked for one hour of the grid
is_booked(events, tz, date, hour) ==
    LET slot_start_local == localize(tz, date, hour)
        slot_end_local == plus_hours(slot_start_local, 1)
    IN  \E ev \in events :
           event_books(EventItem(ev), astimezone_utc(slot_start_local),
                       astimezone_utc(slot_end_local))

\* The query window and the fetch.  outcome is what the calendar source
\* does: "ok", "auth" (credentials rejected) or "unavailable" (provider or
\* network failure); cal is the content of the calendar partner.email.
fetch_events(cal, tz, date) ==
    LET start_of_day_local == localize(tz, date, 0)
        end_of_day_local == plus_hours(start_of_day_local, 24)
    IN  events_list(cal, instant(astimezone_utc(start_of_day_local)),
                    instant(astimezone_utc(end_of_day_local)))

\* get_available_slots(partner, date, local_tz_str): what the call gives its
\* caller, kind "return" with the list of slots (the function has no path
\* that raises once the zone name resolves)
get_available_slots(partner, date, tz, outcome, cal) ==
    IF outcome # "ok" THEN [kind |-> "return", slots |-> <<>>]
    ELSE LET events == fetch_events(cal, tz, date)
             free == SelectSeq(SlotHours, LAMBDA h : ~is_booked(events, tz, date, h))
         IN  [kind |-> "return",
              slots |-> [i \in 1..Len(free) |->
                           TimeSlot(localize(tz, date, free[i]), partner.id)]]

(* ------------------------------ database ------------------------------- *)

\* init_db: the sample rows of partners and service_areas
SamplePartners ==
    [id \in 1..3 |-> [email |-> "your-email@gmail.com", calendar_type |-> "google"]]

SampleZips == {<<1, "10001">>, <<1, "10002">>, <<2, "10001">>, <<3, "10001">>}

\* Zip codes the requests of the model carry.  "1000" is not 5 digits.
FiveDigitZips == {"10001", "10002", "94596", "60601"}
ZipInputs == FiveDigitZips \cup {"1000", NoValue}

\* ZIP_CITY_MAP, the entries for the zip codes of the model
ZIP_CITY_MAP ==
    [z \in {"94596", "10001", "60601"} |->
        CASE z = "94596" -> "America/Los_Angeles"
          [] z = "10001" -> "America/New_York"
          [] z = "60601" -> "America/Chicago"]

\* get_location_for_zip(zip_code)['timezone'].  The us-package branch gives
\* the state's zone (NY, CA: the same zones as the map) or raises and falls
\* through; unknown zips fall back to New York.
get_location_for_zip(zip_code) ==
    IF zip_code \in DOMAIN ZIP_CITY_MAP THEN ZIP_CITY_MAP[zip_code]
    ELSE "America/New_York"

\* get_partners_by_zip(zip_code): the joined rows, in rowid order
get_partners_by_zip(rows, areas, zip_code) ==
    LET ids == SelectSeq([i \in 1..Len(rows) |-> i],
                         LAMBDA i : <<i, zip_code>> \in areas)
    IN  [k \in 1..Len(ids) |-> Partner(ids[k], rows[ids[k]])]

(* ------------------------------- /search -------------------------------- *)

\* datetime.strptime(date_str, '%Y-%m-%d'): a date of the model parses,
\* 0 stands for a string strptime rejects (or a missing parameter)
DateInputs == Dates \cup {0}
strptime_ok(date_str) == date_str \in Dates

FetchOutcomes == {"ok", "auth", "unavailable"}

search_calls_abort(plist, date, tz, outcome, cals) ==
    [pid \in {plist[k].id : k \in {n \in 1..Len(plist) :
                \A j \in 1..(n - 1) : outcome[plist[j].id] = "ok"}} |->
        LET partner == CHOOSE p \in {plist[k] : k \in 1..Len(plist)} : p.id = pid
        IN  [partner |-> partner, date |-> date, tz |-> tz,
             outcome |-> outcome[pid],
             events |-> IF outcome[pid] = "ok"
                        THEN fetch_events(cals[partner.email], tz, date) ELSE {},
             result |-> get_available_slots(partner, date, tz, outcome[pid],
                                            cals[partner.email])]]

\* the get_available_slots calls of the loop over partners: for each partner
\* of the list, the call's inputs, what the calendar source did, and the
\* call's result
search_calls(plist, date, tz, outcome, cals) ==
    [pid \in {plist[k].id : k \in 1..Len(plist)} |->
        LET partner == CHOOSE p \in {plist[k] : k \in 1..Len(plist)} : p.id = pid
        IN  [partner |-> partner, date |-> date, tz |-> tz,
             outcome |-> outcome[pid],
             events |-> IF outcome[pid] = "ok"
                        THEN fetch_events(cals[partner.email], tz, date) ELSE {},
             result |-> get_available_slots(partner, date, tz, outcome[pid],
                                            cals[partner.email])]]

\* the availability dict: an entry for each partner whose slots are not empty
search_availability(made) ==
    [pid \in {q \in DOMAIN made : made[q].result.slots # <<>>} |->
        [partner |-> made[pid].partner, slots |-> made[pid].result.slots]]

NoCalls == [pid \in {} |-> 0]
NoAvailability == [pid \in {} |-> 0]

Response(op, kind, flash, zip, date, availability) ==
    [op |-> op, kind |-> kind, flash |-> flash, zip |-> zip, date |-> date,
     availability |-> availability]

NoResponse == Response("none", "none", "", NoValue, 0, NoAvailability)

\* search(): the response and the calls made
search(rows, areas, cals, zip_code, date_str, outcome) ==
    IF zip_code = NoValue \/ zip_code \notin FiveDigitZips
    THEN [resp |-> Response("search", "redirect", "Invalid zip code", zip_code,
                            date_str, NoAvailability),
          calls |-> NoCalls]
    ELSE IF ~strptime_ok(date_str)
    THEN [resp |-> Response("search", "redirect", "Invalid date", zip_code,
                            date_str, NoAvailability),
          calls |-> NoCalls]
    ELSE LET plist == get_partners_by_zip(rows, areas, zip_code)
         IN  IF plist = <<>>
             THEN [resp |-> Response("search", "redirect", "No partners serve",
                                     zip_code, date_str, NoAvailability),
                   calls |-> NoCalls]
             ELSE LET made == search_calls(plist, date_str,
                                           get_location_for_zip(zip_code),
                                           outcome, cals)
                  IN  [resp |-> Response("search", "render", "", zip_code,
                                         date_str, search_availability(made)),
                       calls |-> made]

\* The request cycle: a view function runs when a request arrives and its
\* return value is the response in flight (resp, with the calendar calls it
\* made); Deliver hands the response to the client and the server is idle.
Idle == resp.op = "none"

Search ==
    /\ Idle
    /\ \E zip_code \in ZipInputs, date_str \in DateInputs :
       \E outcome \in [{i \in 1..Len(partners) : <<i, zip_code>> \in service_areas}
                         -> FetchOutcomes] :
          LET r == search(partners, service_areas, calendar, zip_code, date_str,
                          outcome)
          IN  /\ resp' = r.resp
              /\ calls' = r.calls
              /\ inserts' = <<>>
              /\ UNCHANGED <<partners, service_areas, calendar, booked>>

Deliver ==
    /\ ~Idle
    /\ resp' = NoResponse
    /\ calls' = NoCalls
    /\ inserts' = <<>>
    /\ UNCHANGED <<partners, service_areas, calendar, booked>>

(* -------------------------------- /book --------------------------------- *)

\* A request parameter that is absent: request.args.get gives None
MissingText == [wall |-> 0, suffix |-> "missing", off |-> 0]

booking_event_two_hours(slot_dt, local_tz_str) ==
    [start |-> [dateTime |-> isoformat(astimezone_utc(slot_dt)),
                timeZone |-> local_tz_str],
     end |-> [dateTime |-> isoformat(astimezone_utc(plus_hours(slot_dt, 2))),
              timeZone |-> local_tz_str]]

\* the event body of the google branch
booking_event(slot_dt, local_tz_str) ==
    [start |-> [dateTime |-> isoformat(astimezone_utc(slot_dt)),
                timeZone |-> local_tz_str],
     end |-> [dateTime |-> isoformat(astimezone_utc(plus_hours(slot_dt, 1))),
              timeZone |-> local_tz_str]]

google_insert_retry(partner, event) ==
    <<[calendarId |-> partner.email, body |-> event],
      [calendarId |-> partner.email, body |-> event]>>

\* service.events().insert(calendarId = partner.email, body = event): the
\* calls the google branch makes
google_insert(partner, event) ==
    <<[calendarId |-> partner.email, body |-> event]>>

\* the provider's side of insert: the calendar holds the event of the body
events_insert(cal, body) ==
    cal \cup {Event(instant(fromisoformat(body.start.dateTime).dt),
                    instant(fromisoformat(body.end.dateTime).dt), "offset", 0)}

BookResult(flash, args, made, cals, done) ==
    [resp |-> Response("book", "redirect", flash, args.zip, 0, NoAvailability),
     inserts |-> made, calendar |-> cals, booked |-> done]

\* book(): args are the request parameters; outcome is what the calendar
\* provider does ("auth": get_service_for_partner raises, "unavailable":
\* insert(...).execute() raises).  The outlook branch calls
\* get_outlook_service, a name the module does not define: NameError, caught
\* by the handler's except.
book(rows, cals, done, args, outcome) ==
    IF args.slot = MissingText \/ args.partner_id = 0 \/ args.name = NoValue
       \/ args.email = NoValue \/ args.zip = NoValue \/ args.date = 0
    THEN BookResult("Missing information", args, <<>>, cals, done)
    ELSE IF args.partner_id \notin 1..Len(rows)
    THEN BookResult("Partner not found", args, <<>>, cals, done)
    ELSE
      LET partner == Partner(args.partner_id, rows[args.partner_id])
          local_tz_str == get_location_for_zip(args.zip)
          parsed == fromisoformat(args.slot)
          slot_dt == IF parsed.dt.aware THEN parsed.dt
                     ELSE localize_naive(local_tz_str, parsed.dt)
      IN  IF ~parsed.ok
          THEN BookResult("Invalid time format", args, <<>>, cals, done)
          ELSE IF partner.calendar_type = "google"
          THEN IF outcome = "auth"
               THEN BookResult("Booking failed", args, <<>>, cals, done)
               ELSE LET event == booking_event(slot_dt, local_tz_str)
                        made == google_insert(partner, event)
                    IN  IF outcome = "unavailable"
                        THEN BookResult("Booking failed", args, made, cals, done)
                        ELSE BookResult("Booked with", args, made,
                               [cals EXCEPT ![partner.email] =
                                   events_insert(@, event)],
                               done \cup {[email |-> partner.email,
                                           slot |-> isoformat(slot_dt),
                                           body |-> event]})
          ELSE IF partner.calendar_type = "outlook"
          THEN BookResult("Booking failed", args, <<>>, cals, done)
          ELSE BookResult("Calendar type not supported", args, <<>>, cals, done)

BookArgs(slot, partner_id, name, email, zip, date) ==
    [slot |-> slot, partner_id |-> partner_id, name |-> name, email |-> email,
     zip |-> zip, date |-> date]

\* the slot and zip parameters: start texts of slots the results page offers
\* for the zip, a naive timestamp, and a string that is no timestamp
SlotAndZip ==
    {<<isoformat(localize("America/New_York", 1, 9)), "10001">>,
     <<isoformat(localize("America/New_York", 1, 13)), "10001">>,
     <<isoformat(localize("America/New_York", 2, 13)), "10002">>,
     <<[wall |-> 24 + 13, suffix |-> "naive", off |-> 0], "94596">>,
     <<[wall |-> 0, suffix |-> "garbage", off |-> 0], "10001">>}

\* complete requests, and requests with parameters absent
BookRequests ==
    {BookArgs(sz[1], p, "Ann", "ann@example.com", sz[2], 1) :
        sz \in SlotAndZip, p \in 1..(MaxPartners + 1)}
    \cup {BookArgs(MissingText, 1, "Ann", "ann@example.com", "10001", 1)}
    \cup {BookArgs(isoformat(localize("America/New_York", 1, 9)), p, n, e, z, d) :
            p \in {0, 1}, n \in {NoValue, "Ann"},
            e \in {NoValue, "ann@example.com"}, z \in {NoValue, "10001"},
            d \in {0, 1}}

TotalEvents(cals) ==
    Cardinality({<<e, ev>> \in Emails \X UNION {cals[x] : x \in Emails} :
                    ev \in cals[e]})

Book ==
    /\ Idle
    /\ \E args \in BookRequests, outcome \in FetchOutcomes :
          LET r == book(partners, calendar, booked, args, outcome)
          IN  /\ r.calendar # calendar => TotalEvents(calendar) < MaxCalEvents
              /\ resp' = r.resp
              /\ inserts' = r.inserts
              /\ calendar' = r.calendar
              /\ booked' = r.booked
              /\ calls' = NoCalls
              /\ UNCHANGED <<partners, service_areas>>

(* -------------------------------- /join --------------------------------- *)

\* the form of POST /join: email, calendar_type and the comma separated zip
\* codes after split and strip (name and description are present)
JoinForms ==
    {[email |-> "other@gmail.com", calendar_type |-> "google",
      zips |-> <<"94596">>],
     [email |-> "other@gmail.com", calendar_type |-> "outlook",
      zips |-> <<"1000", "10002">>],
     [email |-> "your-email@gmail.com", calendar_type |-> "apple",
      zips |-> <<"94596", "10002">>],
     [email |-> NoValue, calendar_type |-> "google", zips |-> <<"94596">>],
     [email |-> "other@gmail.com", calendar_type |-> "google",
      zips |-> <<"1000">>]}

JoinResult(kind, flash, rows, areas) ==
    [resp |-> Response("join", kind, flash, NoValue, 0, NoAvailability),
     partners |-> rows, service_areas |-> areas]

\* join(), POST
join(rows, areas, form) ==
    IF form.email = NoValue
    THEN JoinResult("render", "Please fill all fields", rows, areas)
    ELSE LET valid_zips == SelectSeq(form.zips, LAMBDA z : z \in FiveDigitZips)
             partner_id == Len(rows) + 1
         IN  IF valid_zips = <<>>
             THEN JoinResult("render",
                             "At least one valid 5-digit zip code required",
                             rows, areas)
             ELSE JoinResult("redirect", "Welcome",
                    Append(rows, [email |-> form.email,
                                  calendar_type |-> form.calendar_type]),
                    areas \cup {<<partner_id, valid_zips[k]>> :
                                   k \in 1..Len(valid_zips)})

Join ==
    /\ Idle
    /\ \E form \in JoinForms :
          LET r == join(partners, service_areas, form)
          IN  /\ r.partners # partners => Len(partners) < MaxPartners
              /\ resp' = r.resp
              /\ partners' = r.partners
              /\ service_areas' = r.service_areas
              /\ calls' = NoCalls
              /\ inserts' = <<>>
              /\ UNCHANGED <<calendar, booked>>

(* ------------------------- the calendar owner --------------------------- *)

\* the partner (or anyone with the calendar) adds an event of their own
OwnerEvents == {Event(instant(localize("America/New_York", 1, 12)),
                      instant(localize("America/New_York", 1, 14)),
                      "offset", 0 - 5)}

OwnerAddsEvent ==
    /\ Idle
    /\ TotalEvents(calendar) < MaxCalEvents
    /\ \E e \in Emails, ev \in OwnerEvents :
          /\ ev \notin calendar[e]
          /\ calendar' = [calendar EXCEPT ![e] = @ \cup {ev}]
    /\ UNCHANGED <<partners, service_areas, calls, inserts, booked, resp>>

(* ----------------------------- the program ------------------------------ *)

\* after init_db, with empty calendars
Init ==
    /\ partners = SamplePartners
    /\ service_areas = SampleZips
    /\ calendar = [e \in Emails |-> {}]
    /\ calls = NoCalls
    /\ inserts = <<>>
    /\ booked = {}
    /\ resp = NoResponse

Next == Search \/ Book \/ Join \/ OwnerAddsEvent \/ Deliver

Spec == Init /\ [][Next]_vars

(* ------------------- availability runs: SpecAvail ---------------------- *)

NY(d, h) == instant(localize("America/New_York", d, h))
LA(d, h) == instant(localize("America/Los_Angeles", d, h))

\* The events a partner's calendar may hold when a search runs: one-hour
\* events before, on and after the edges of the New York grid, events over
\* two slots, over the business day and over the whole day, all-day events,
\* events whose timestamps are naive or unparseable, and events placed on the
\* Los Angeles grid.
PoolEvents ==
    {Event(NY(1, h), NY(1, h) + 1, "Z", 0) : h \in {8, 9, 13, 16, 17}}
    \cup {Event(NY(2, h), NY(2, h) + 1, "Z", 0) : h \in {8, 13}}
    \cup {Event(NY(1, 12), NY(1, 14), "offset", 0 - 5),
          Event(NY(1, 9), NY(1, 17), "Z", 0),
          Event(NY(2, 9), NY(2, 17), "offset", 0 - 4)}
    \cup {Event(NY(d, 0), NY(d, 0) + 24, form, 0 - 5) :
            d \in Dates, form \in {"offset", "date"}}
    \cup {Event(NY(1, 13), NY(1, 14), form, 0) : form \in {"naive", "garbage"}}
    \cup {Event(LA(1, h), LA(1, h) + 1, "offset", 0 - 8) : h \in {9, 16}}

RECURSIVE SubsetsUpTo(_, _)
SubsetsUpTo(P, n) ==
    IF n = 0 THEN {{}}
    ELSE LET prev == SubsetsUpTo(P, n - 1)
         IN  prev \cup {S \cup {e} : S \in prev, e \in P}

\* a row /join has added: a google partner serving the Los Angeles zip
JoinedRow == [email |-> "your-email@gmail.com", calendar_type |-> "google"]

InitAvail ==
    /\ \E joined \in BOOLEAN :
          /\ partners = IF joined THEN Append(SamplePartners, JoinedRow)
                        ELSE SamplePartners
          /\ service_areas = IF joined THEN SampleZips \cup {<<4, "94596">>}
                             ELSE SampleZips
    /\ \E S \in SubsetsUpTo(PoolEvents, MaxEvents) :
          calendar = [e \in Emails |->
                        IF e = "your-email@gmail.com" THEN S ELSE {}]
    /\ calls = NoCalls
    /\ inserts = <<>>
    /\ booked = {}
    /\ resp = NoResponse

NextAvail == Search \/ Deliver

SpecAvail == InitAvail /\ [][NextAvail]_vars

(* ------------------------------ properties ------------------------------ *)

\* the get_available_slots calls of the response in flight
Calls == {calls[pid] : pid \in DOMAIN calls}

\* the absolute start and end of a returned slot
SlotStart(slot) == slot.start.wall - slot.start.off
SlotEnd(slot) == SlotStart(slot) + 1

\* the local hours of the returned slots, in the order returned
ReturnedHours(c) == [i \in 1..Len(c.result.slots) |-> c.result.slots[i].start.wall % 24]
ReturnedHourSet(c) == {ReturnedHours(c)[i] : i \in 1..Len(c.result.slots)}

\* the absolute start of grid hour h of a call's day
GridStart(c, h) == instant(localize(c.tz, c.date, h))

\* C1: no returned slot overlaps any busy interval of the fetched event
\* list, the events the code skips included.
C1_NoSlotOverlapsAnyBusyInterval ==
    \A c \in Calls :
        c.outcome = "ok" =>
            \A i \in 1..Len(c.result.slots) : \A B \in c.events :
                ~(SlotStart(c.result.slots[i]) < B.end
                  /\ SlotEnd(c.result.slots[i]) > B.start)

\* C2: a failed fetch is propagated to the caller as an error; the call
\* does not return a list.
C2_FailedFetchPropagates ==
    \A c \in Calls : c.outcome # "ok" => c.result.kind = "raise"

\* every grid hour of the call's day lies in a timed event of the list
FullyBooked(c) ==
    \A h \in 9..16 :
        \E ev \in c.events :
            /\ ev.form \in {"Z", "offset"}
            /\ ev.start <= GridStart(c, h)
            /\ ev.end >= GridStart(c, h) + 1

\* the availability of the run that differs from the one in flight only in
\* that the fetch of partner pid fails
AvailabilityIfFetchFails(pid) ==
    search(partners, service_areas, calendar, resp.zip, resp.date,
           [q \in DOMAIN calls |->
               IF q = pid THEN "unavailable" ELSE calls[q].outcome]).resp.availability

\* C3: the availability handed to the results page for a partner whose day
\* is fully booked differs from the one the same search hands over when that
\* partner's fetch fails.
C3_FailureDiffersFromFullyBooked ==
    resp.op = "search" /\ resp.kind = "render" =>
        \A pid \in DOMAIN calls :
            calls[pid].outcome = "ok" /\ FullyBooked(calls[pid]) =>
                AvailabilityIfFetchFails(pid) # resp.availability

\* C4: every returned slot starts at a whole local hour h, 9 <= h < 17, of
\* the requested date, written with the requested zone's offset at that
\* hour, so that it ends by 17:00; at most 8 slots, no start twice.
C4_SlotsInsideBusinessDay ==
    \A c \in Calls :
        /\ Len(c.result.slots) <= 8
        /\ \A i \in 1..Len(c.result.slots) :
              LET t == c.result.slots[i].start
              IN  /\ t.suffix = "offset"
                  /\ t.wall \div 24 = c.date
                  /\ t.wall % 24 >= 9
                  /\ (t.wall % 24) + 1 <= 17
                  /\ t.off = utcoffset(c.tz, c.date, t.wall % 24)
        /\ \A i, j \in 1..Len(c.result.slots) :
              c.result.slots[i].start = c.result.slots[j].start => i = j

C4_Witness ==
    \E c \in Calls :
        /\ c.outcome = "ok"
        /\ c.events # {}
        /\ c.date = 2
        /\ c.tz = "America/Los_Angeles"
        /\ Len(c.result.slots) = 8

\* a timed event the code can parse
Timed(ev) == ev.form \in {"Z", "offset", "naive"}

\* C5: with a single timed event in the list: an event equal to grid slot h0
\* removes h0 and nothing else; an event that ends where slot h starts, or
\* starts where slot h ends, leaves h in the result.
C5_HalfOpenBoundary ==
    \A c \in Calls : \A ev \in c.events :
        c.outcome = "ok" /\ c.events = {ev} /\ Timed(ev) =>
            \A h \in 9..16 :
                /\ ev.start = GridStart(c, h) /\ ev.end = GridStart(c, h) + 1
                      => ReturnedHourSet(c) = (9..16) \ {h}
                         /\ Len(c.result.slots) = 7
                /\ ev.end = GridStart(c, h) \/ ev.start = GridStart(c, h) + 1
                      => h \in ReturnedHourSet(c)

C5_Witness ==
    \E c \in Calls : \E ev \in c.events :
        /\ c.outcome = "ok" /\ c.events = {ev} /\ Timed(ev)
        /\ ev.start = GridStart(c, 13) /\ ev.end = GridStart(c, 14)
        /\ ReturnedHourSet(c) = (9..16) \ {13}

\* C6: a successful fetch of no events gives the 8 slots 09:00..16:00 of the
\* day in order, each tagged with the partner's id; and any result is in
\* strictly ascending order of start.
C6_EmptyListGivesAllSlotsAscending ==
    \A pid \in DOMAIN calls :
        LET c == calls[pid]
        IN  /\ c.outcome = "ok" /\ c.events = {} =>
                  /\ ReturnedHours(c) = <<9, 10, 11, 12, 13, 14, 15, 16>>
                  /\ \A i \in 1..Len(c.result.slots) :
                        /\ c.result.slots[i].partner_id = pid
                        /\ c.result.slots[i].start.wall \div 24 = c.date
            /\ \A i, j \in 1..Len(c.result.slots) :
                  i < j => SlotStart(c.result.slots[i]) < SlotStart(c.result.slots[j])

C6_Witness ==
    \E pid \in DOMAIN calls :
        /\ calls[pid].outcome = "ok"
        /\ calls[pid].events = {}
        /\ Len(calls[pid].result.slots) = 8
        /\ calendar[calls[pid].partner.email] # {}

\* C7: an event of the list that spans the whole requested day, timed or
\* all-day, leaves no slot.
C7_WholeDayEventRemovesAll ==
    \A c \in Calls :
        c.outcome = "ok"
        /\ (\E ev \in c.events :
               ev.start <= GridStart(c, 0) /\ ev.end >= GridStart(c, 0) + 24)
        => c.result.slots = <<>>

\* C8: a /book request makes at most one event-creation call; exactly one
\* when it answers "Booked with ..."; none when it is rejected (a parameter
\* missing, partner not found, slot time not parseable, calendar type not
\* supported).
C8_OneWritePerBooking ==
    resp.op = "book" =>
        /\ Len(inserts) <= 1
        /\ resp.flash = "Booked with" => Len(inserts) = 1
        /\ resp.flash \in {"Missing information", "Partner not found",
                           "Invalid time format", "Calendar type not supported"}
              => Len(inserts) = 0

C8_Witness ==
    /\ resp.op = "book"
    /\ resp.flash = "Booked with"
    /\ Len(inserts) = 1
    /\ inserts[1].calendarId = "other@gmail.com"

\* C9: a search that renders has called get_available_slots for every
\* partner serving the zip, whichever of them failed, and every partner with
\* a slot is in the availability with exactly the slots its call returned.
C9_FailureDoesNotAbortSiblings ==
    resp.op = "search" /\ resp.kind = "render" =>
        \A pid \in 1..Len(partners) :
            <<pid, resp.zip>> \in service_areas =>
                /\ pid \in DOMAIN calls
                /\ calls[pid].result =
                      get_available_slots(Partner(pid, partners[pid]), resp.date,
                                          get_location_for_zip(resp.zip),
                                          calls[pid].outcome,
                                          calendar[partners[pid].email])
                /\ calls[pid].result.slots # <<>> =>
                      /\ pid \in DOMAIN resp.availability
                      /\ resp.availability[pid].slots = calls[pid].result.slots

C9_Witness ==
    /\ resp.op = "search" /\ resp.kind = "render"
    /\ \E p, q \in DOMAIN calls :
          /\ p < q
          /\ calls[p].outcome # "ok"
          /\ calls[q].outcome = "ok"
          /\ q \in DOMAIN resp.availability
          /\ Len(resp.availability[q].slots) \in 1..7

\* the event the provider holds for a booking
CreatedEvent(b) == CHOOSE ev \in events_insert({}, b.body) : TRUE

\* the booking is for a grid slot of the call's day and zone, on the
\* calendar the call reads, and the fetched list holds the created event
BookedSlotSeenBy(b, c) ==
    /\ c.outcome = "ok"
    /\ c.partner.email = b.email
    /\ \E h \in 9..16 : b.slot = isoformat(localize(c.tz, c.date, h))
    /\ CreatedEvent(b) \in c.events

\* what the call would return with the created event not in the calendar
SlotsWithout(b, c) ==
    get_available_slots(c.partner, c.date, c.tz, "ok",
                        calendar[c.partner.email] \ {CreatedEvent(b)}).slots

\* C10: once a google booking of a grid slot has succeeded, a later
\* successful get_available_slots call on the same calendar, date and zone
\* that fetches the created event does not return the slot, and returns
\* every other slot it returns without the created event.
C10_BookedSlotNotOfferedAgain ==
    \A b \in booked : \A c \in Calls :
        BookedSlotSeenBy(b, c) =>
            /\ \A i \in 1..Len(c.result.slots) : c.result.slots[i].start # b.slot
            /\ \A k \in 1..Len(SlotsWithout(b, c)) :
                  SlotsWithout(b, c)[k].start # b.slot =>
                      \E i \in 1..Len(c.result.slots) :
                          c.result.slots[i] = SlotsWithout(b, c)[k]

C10_Witness ==
    \E b \in booked : \E c \in Calls :
        /\ BookedSlotSeenBy(b, c)
        /\ Len(SlotsWithout(b, c)) = 8
        /\ Len(c.result.slots) = 7
        /\ c.date = 2

====
